---- MODULE Spec2Model ----
(***************************************************************************)
(* A model of the mmmm broadcast pipeline: basic.send_to_all (plain mode)  *)
(* and templated.send_to_all (templated mode), with the platform registry  *)
(* and the platform adapters they use.                                     *)
(*                                                                         *)
(* One call is followed from the command line arguments to its exit.       *)
(* contact_db.py does not compile, and templated.py imports it: in         *)
(* templated mode a call ends at the import with SyntaxError, no ContactDB *)
(* exists and none of its methods runs.  Plain mode runs as written.       *)
(*                                                                         *)
(* Text is a sequence of tokens.                                           *)
(***************************************************************************)
EXTENDS Integers, Sequences, FiniteSets, TLC

\* ------------------------------------------------------------------ bounds
MaxRecipients == 2

MaxQuery == 3

MaxCalls == 3

\* ------------------------------------------------------------- value space
Usernames == {"a", "b"}

\* platforms.platform_class: the registered adapter classes by name
platform_class == {"slack", "email"}

PlatformNames == platform_class \cup {"sms"}

\* recipients_data entries: a bare identifier, or a dict of constructor
\* keyword arguments (json.loads of the recipient text)
Bare(u) == [shape |-> "bare", key |-> "", id |-> u]

RecipientData ==
    { Bare(u) : u \in Usernames }
    \cup { [shape |-> "dict", key |-> "address", id |-> "a"],
           [shape |-> "dict", key |-> "username", id |-> "b"] }

RECURSIVE SeqsUpTo(_, _)
SeqsUpTo(S, n) ==
    IF n = 0 THEN { <<>> }
    ELSE LET shorter == SeqsUpTo(S, n - 1)
         IN  shorter \cup { Append(s, x) : s \in { t \in shorter : Len(t) = n - 1 }, x \in S }

\* content: the text of the message
Contents == { <<"H", "{0}">>, <<"{0}", "{1}">> }

\* sender_data of the Email adapter: sender addresses, one without a domain
Addresses ==
    { <<"a", "@", "x">>, <<"b", "@", "x">>, <<"c", "@", "y">>, <<"d">> }

\* the keyword arguments of smtplib.SMTP in data['smtp']
Endpoints == {"smtp1", "smtp2"}

SenderData == [address : Addresses, smtp : Endpoints]

\* sender_data of send_to_all on the email platform: an address with a
\* domain or one without, and the SMTP keyword arguments
CallSenderData ==
    { d \in SenderData : d.smtp = "smtp1" /\ d.address \in { <<"a", "@", "x">>, <<"d">> } }

SenderObj == [id |-> "me"]
NoSender == [id |-> ""]

VARIABLES
    mode,             \* "plain": basic.send_to_all, "templated": templated.send_to_all
    platform_name,    \* argument of send_to_all
    recipients_data,  \* argument of send_to_all
    content,          \* argument of send_to_all
    directory,        \* usernames in the platform's table of the contact database
    pc,               \* position of the call
    error,            \* the exception that left the call, "" when none
    cursor,           \* the cursor of the ContactDB: "none" while there is no ContactDB
    nQueries,         \* calls of ContactDB.get_usernames
    platform,         \* whether the adapter class was instantiated
    sender,           \* the ClientUser built by the adapter
    nBuilt,           \* User objects constructed by build_recipient
    recipients,       \* the list of User objects (their ids)
    messages,         \* the built messages
    lookups,          \* the passes of the loop of templated.build_messages
    si,               \* index of the message the send loop is at
    attempts,         \* calls of Message.send: [pos, recipient, content, ok]
    servers,          \* Email._servers: the cached session of each domain
    sessions,         \* the smtplib.SMTP sessions opened, in order
    calls,            \* the calls of Email.build_sender on the adapter, in order
    usernames,        \* argument of ContactDB.get_unrecognized
    unrecognized      \* the list get_unrecognized returns

vars == << mode, platform_name, recipients_data, content, directory, pc, error,
           cursor, nQueries, platform, sender, nBuilt, recipients, messages,
           lookups, si, attempts, servers, sessions, calls, usernames,
           unrecognized >>

\* the state of one Email adapter, and of one call of get_unrecognized
adapterVars == << servers, sessions, calls >>
queryVars == << usernames, unrecognized >>

\* ------------------------------------------------------ platforms
\* the keyword the adapter's User class takes (EmailUser / SlackUser)
UserKey(name) == IF name = "email" THEN "address" ELSE "username"

\* Platform.build_recipient: a bare identifier is wrapped in a dict, then
\* the dict is passed as keyword arguments to the User class
build_recipient(name, data) ==
    LET d == IF data.shape # "dict"
             THEN [shape |-> "dict", key |-> UserKey(name), id |-> data.id]
             ELSE data
    IN  IF d.key = UserKey(name)
        THEN [exc |-> "", val |-> d.id]
        ELSE [exc |-> "TypeError", val |-> ""]

\* build_sender with the failure swallowed: no exception, and no sender
build_sender_swallow(name, established) ==
    IF established
    THEN [exc |-> "", val |-> SenderObj]
    ELSE [exc |-> "", val |-> NoSender]

\* Platform.build_sender: the ClientUser, when the adapter establishes the
\* sending identity (Email: the SMTP session, starttls and login; Slack:
\* the client for the token); its exception otherwise
build_sender(name, established) ==
    IF established
    THEN [exc |-> "", val |-> SenderObj]
    ELSE [exc |-> "SenderError", val |-> NoSender]

\* the recipients of basic.build_resources, lines 178-179: the first
\* recipient the adapter rejects ends the comprehension; n counts the User
\* objects constructed
RECURSIVE build_recipients(_, _)
build_recipients(name, data) ==
    IF data = <<>> THEN [exc |-> "", val |-> <<>>, n |-> 0]
    ELSE LET r == build_recipient(name, Head(data))
             rest == build_recipients(name, Tail(data))
         IN  IF r.exc # "" THEN [exc |-> r.exc, val |-> <<>>, n |-> 0]
             ELSE [exc |-> rest.exc, val |-> <<r.val>> \o rest.val, n |-> 1 + rest.n]

\* ------------------------------------------------------ platforms/email.py
\* str.split(sep): the pieces of the text between the separators
RECURSIVE split(_, _)
split(text, sep) ==
    IF text = <<>> THEN << <<>> >>
    ELSE LET rest == split(Tail(text), sep)
         IN  IF Head(text) = sep
             THEN << <<>> >> \o rest
             ELSE << <<Head(text)>> \o Head(rest) >> \o Tail(rest)

\* the session Email._servers holds for a key, 0 when it holds none
Cached(srv, key) ==
    IF \E e \in srv : e.key = key
    THEN (CHOOSE e \in srv : e.key = key).session
    ELSE 0

NoCallResult(exc, data, srv, sess) ==
    [exc |-> exc, servers |-> srv, sessions |-> sess,
     call |-> [address |-> data.address, smtp |-> data.smtp, session |-> 0,
               opened |-> FALSE, exc |-> exc, user |-> FALSE, alive |-> FALSE]]

\* what Email.build_sender does once it has its cache key: a cached session
\* is taken, otherwise smtplib.SMTP(**data['smtp']) opens one (connected)
\* and it is cached; then EmailClientUser.__init__ keeps the session and
\* runs starttls and login on it (established), which fail on a session
\* that was quit.  The EmailClientUser object exists once __init__ ran,
\* whether it raised or not.
SenderWithKey(key, srv, sess, data, connected, established) ==
    LET hit == Cached(srv, key)
    IN  IF hit = 0 /\ ~connected THEN NoCallResult("SMTPConnectError", data, srv, sess)
        ELSE LET server == IF hit # 0 THEN hit ELSE Len(sess) + 1
                 srv1 == IF hit # 0 THEN srv
                         ELSE srv \cup {[key |-> key, session |-> server]}
                 sess1 == IF hit # 0 THEN sess
                          ELSE Append(sess, [smtp |-> data.smtp, handshakes |-> 0,
                                             quit |-> FALSE])
                 ok == established /\ ~sess1[server].quit
                 sess2 == [sess1 EXCEPT ![server].handshakes = @ + 1]
                 exc == IF ok THEN "" ELSE "SMTPException"
             IN  [exc |-> exc, servers |-> srv1, sessions |-> sess2,
                  call |-> [address |-> data.address, smtp |-> data.smtp,
                            session |-> server, opened |-> hit = 0, exc |-> exc,
                            user |-> TRUE, alive |-> TRUE]]

\* Email.build_sender with the cache keyed by the SMTP endpoint data
Email_build_sender_by_endpoint(srv, sess, data, connected, established) ==
    LET parts == split(data.address, "@")
    IN  IF Len(parts) < 2 THEN NoCallResult("IndexError", data, srv, sess)
        ELSE SenderWithKey(<<data.smtp>>, srv, sess, data, connected, established)

\* Email.build_sender: the cache key is data['address'].split('@')[1]
Email_build_sender(srv, sess, data, connected, established) ==
    LET parts == split(data.address, "@")
    IN  IF Len(parts) < 2 THEN NoCallResult("IndexError", data, srv, sess)
        ELSE SenderWithKey(parts[2], srv, sess, data, connected, established)

\* EmailClientUser.__del__, for every sender object of the adapter that is
\* still referenced: the object goes and its session is quit
del_client_users(cs) == [i \in 1..Len(cs) |-> [cs[i] EXCEPT !.alive = FALSE]]

quit_sessions(cs, sess) ==
    [k \in 1..Len(sess) |->
        IF \E i \in 1..Len(cs) : cs[i].user /\ cs[i].alive /\ cs[i].session = k
        THEN [sess[k] EXCEPT !.quit = TRUE]
        ELSE sess[k]]

\* ------------------------------------------------------ basic.py
\* text handed to json.loads: "json" is text it accepts, "text" text it rejects
JsonText == {"json", "text"}

\* CLI.fill_in_args of basic.py: a sender not given on the command line is
\* read from the file the environment variable names; sender_env is "None"
\* when the variable is not set, "missing" or "directory" when the path it
\* holds is no file or a directory, so that open() raises, and else what
\* the file holds
basic_fill_in_args(sender_json, sender_env) ==
    IF sender_json # "None" THEN [exc |-> "", sender_json |-> sender_json]
    ELSE IF sender_env = "None"
         THEN [exc |-> "ValueError: No sender specified", sender_json |-> "None"]
    ELSE IF sender_env = "missing"
         THEN [exc |-> "FileNotFoundError", sender_json |-> "None"]
    ELSE IF sender_env = "directory"
         THEN [exc |-> "IsADirectoryError", sender_json |-> "None"]
    ELSE [exc |-> "", sender_json |-> sender_env]

\* CLI.parse_to_python of basic.py: json.loads of the sender; a recipient
\* that is not JSON is kept as a string
basic_parse_to_python(sender_json) ==
    IF sender_json = "json" THEN "" ELSE "JSONDecodeError"

\* A Message keeps its sender, recipient and content; pos is the position
\* of its recipient in the list, the identity of the object.
Message(s, r, c, p) == [sender |-> s, recipient |-> r, content |-> c, pos |-> p]

\* basic.build_messages with the comprehension stopping one recipient early
build_messages_drop_last(s, rs, c) ==
    [i \in 1..(Len(rs) - 1) |-> Message(s, rs[i], c, i)]

\* basic.build_messages walking the recipients from the last to the first
build_messages_reversed(s, rs, c) ==
    [i \in 1..Len(rs) |-> Message(s, rs[Len(rs) + 1 - i], c, Len(rs) + 1 - i)]

\* basic.build_messages
build_messages(s, rs, c) == [i \in 1..Len(rs) |-> Message(s, rs[i], c, i)]

\* basic.send_message without its except clause: the transport's exception
\* leaves the function
send_message_uncaught(message, delivered) ==
    [attempt |-> [pos |-> message.pos, recipient |-> message.recipient,
                  content |-> message.content, ok |-> delivered],
     log |-> IF delivered THEN "info" ELSE "",
     exc |-> IF delivered THEN "" ELSE "TransportError"]

\* basic.send_message: sends and logs; delivered is what the transport did.
\* The exception of a failed send is caught and logged.
send_message(message, delivered) ==
    [attempt |-> [pos |-> message.pos, recipient |-> message.recipient,
                  content |-> message.content, ok |-> delivered],
     log |-> IF delivered THEN "info" ELSE "error",
     exc |-> ""]

\* ------------------------------------------------------ the call
\* no Email adapter in use, no call of get_unrecognized under way
AdapterIdle ==
    /\ servers = {}
    /\ sessions = <<>>
    /\ calls = <<>>

QueryIdle ==
    /\ usernames = <<>>
    /\ unrecognized = <<>>

\* A plain call starts at CLI.get_args, whose result is then passed to
\* send_to_all, or at send_to_all itself.  A templated call starts at the
\* import of mmmm.templated: nothing of templated.py is defined before
\* its line 8 has run.
Init ==
    /\ mode \in {"plain", "templated"}
    /\ content \in Contents
    /\ directory \in IF mode = "templated" THEN SUBSET Usernames ELSE {{}}
    /\ recipients_data \in SeqsUpTo(RecipientData, MaxRecipients)
    /\ pc \in IF mode = "templated" THEN {"import"} ELSE {"args", "platform"}
    /\ platform_name \in PlatformNames
    /\ platform = FALSE
    /\ sender = NoSender
    /\ nBuilt = 0
    /\ recipients = <<>>
    /\ error = ""
    /\ cursor = "none"
    /\ nQueries = 0
    /\ messages = <<>>
    /\ lookups = <<>>
    /\ si = 1
    /\ attempts = <<>>
    /\ AdapterIdle
    /\ QueryIdle

\* an exception leaves send_to_all: nothing else of the call runs
Raise(exc) ==
    /\ pc' = "failed"
    /\ error' = exc

\* contact_db.py, lines 25-26: the module does not compile, so importing it,
\* as templated.py does on its line 8, raises SyntaxError: no class or
\* function of either module is defined, no database connection is opened
ImportContactDB ==
    /\ pc = "import"
    /\ Raise("SyntaxError")
    /\ UNCHANGED << mode, platform_name, recipients_data, content, directory,
                    cursor, nQueries, platform, sender, nBuilt, recipients,
                    messages, lookups, si, attempts >>
    /\ UNCHANGED << adapterVars, queryVars >>

\* CLI.get_args of basic.py: parse_args exits on a command line it cannot
\* parse; fill_in_args fills a sender left out from the environment;
\* parse_to_python decodes the JSON
GetArgs ==
    /\ pc = "args"
    /\ \E argv_ok \in BOOLEAN :
       \E sender_json \in {"None"} \cup JsonText :
       \E sender_env \in {"None", "missing", "directory"} \cup JsonText :
          LET f == basic_fill_in_args(sender_json, sender_env)
              exc == IF ~argv_ok THEN "SystemExit"
                     ELSE IF f.exc # "" THEN f.exc
                     ELSE basic_parse_to_python(f.sender_json)
          IN  IF exc # "" THEN Raise(exc)
              ELSE /\ pc' = "platform"
                   /\ error' = error
    /\ UNCHANGED << mode, platform_name, recipients_data, content, directory,
                    cursor, nQueries, platform, sender, nBuilt, recipients,
                    messages, lookups, si, attempts >>
    /\ UNCHANGED << adapterVars, queryVars >>

\* build_resources with the adapter class taken without the registry: a
\* name that is not registered gets an adapter all the same
BuildPlatform_default ==
    /\ pc = "platform"
    /\ platform' = TRUE
    /\ pc' = "sender"
    /\ error' = error
    /\ UNCHANGED << mode, platform_name, recipients_data, content, directory,
                    cursor, nQueries, sender, nBuilt, recipients, messages,
                    lookups, si, attempts >>
    /\ UNCHANGED << adapterVars, queryVars >>

\* basic.build_resources, line 176: the registry lookup and the adapter's
\* constructor
BuildPlatform ==
    /\ pc = "platform"
    /\ IF platform_name \in platform_class
       THEN /\ platform' = TRUE
            /\ pc' = "sender"
            /\ error' = error
       ELSE /\ platform' = platform
            /\ Raise("KeyError")
    /\ UNCHANGED << mode, platform_name, recipients_data, content, directory,
                    cursor, nQueries, sender, nBuilt, recipients, messages,
                    lookups, si, attempts >>
    /\ UNCHANGED << adapterVars, queryVars >>

\* basic.build_resources, line 177: Platform.build_sender on the adapter
\* just made.  The Email adapter opens the SMTP session of the sender's
\* domain, caches it and logs in; the session setup or the login may fail
BuildSender ==
    /\ pc = "sender"
    /\ \E data \in CallSenderData, connected \in BOOLEAN, established \in BOOLEAN :
          LET e == Email_build_sender(servers, sessions, data, connected, established)
              r == build_sender(platform_name,
                                IF platform_name = "email" THEN e.exc = "" ELSE established)
          IN  /\ sender' = r.val
              /\ IF platform_name = "email"
                 THEN /\ servers' = e.servers
                      /\ sessions' = e.sessions
                      /\ calls' = Append(calls, e.call)
                 ELSE UNCHANGED adapterVars
              /\ IF r.exc # "" THEN Raise(r.exc)
                 ELSE /\ pc' = "recipients"
                      /\ error' = error
    /\ UNCHANGED << mode, platform_name, recipients_data, content, directory,
                    cursor, nQueries, platform, nBuilt, recipients, messages,
                    lookups, si, attempts >>
    /\ UNCHANGED queryVars

\* basic.build_resources, lines 178-179
BuildRecipients ==
    /\ pc = "recipients"
    /\ LET r == build_recipients(platform_name, recipients_data)
       IN  /\ nBuilt' = r.n
           /\ IF r.exc # ""
              THEN /\ recipients' = recipients
                   /\ Raise(r.exc)
              ELSE /\ recipients' = r.val
                   /\ pc' = "messages"
                   /\ error' = error
    /\ UNCHANGED << mode, platform_name, recipients_data, content, directory,
                    cursor, nQueries, platform, sender, messages, lookups, si,
                    attempts >>
    /\ UNCHANGED << adapterVars, queryVars >>

\* basic._send_to_all, line 239: one message per recipient
BuildMessages ==
    /\ pc = "messages"
    /\ messages' = build_messages(sender, recipients, content)
    /\ pc' = "send"
    /\ UNCHANGED << mode, platform_name, recipients_data, content, directory,
                    error, cursor, nQueries, platform, sender, nBuilt,
                    recipients, lookups, si, attempts >>
    /\ UNCHANGED << adapterVars, queryVars >>

\* one pass of a send loop that stays at a message whose send failed
SendMessage_retry ==
    /\ pc = "send"
    /\ si <= Len(messages)
    /\ \E delivered \in BOOLEAN :
          LET r == send_message(messages[si], delivered)
          IN  /\ attempts' = Append(attempts, r.attempt)
              /\ si' = IF delivered THEN si + 1 ELSE si
              /\ UNCHANGED << pc, error >>
    /\ UNCHANGED << mode, platform_name, recipients_data, content, directory,
                    cursor, nQueries, platform, sender, nBuilt, recipients,
                    messages, lookups >>
    /\ UNCHANGED << adapterVars, queryVars >>

\* basic._send_to_all, lines 240-241: one pass of the send loop; the
\* transport delivers or raises
SendMessage ==
    /\ pc = "send"
    /\ si <= Len(messages)
    /\ \E delivered \in BOOLEAN :
          LET r == send_message(messages[si], delivered)
          IN  /\ attempts' = Append(attempts, r.attempt)
              /\ IF r.exc # ""
                 THEN /\ Raise(r.exc)
                      /\ si' = si
                 ELSE /\ si' = si + 1
                      /\ UNCHANGED << pc, error >>
    /\ UNCHANGED << mode, platform_name, recipients_data, content, directory,
                    cursor, nQueries, platform, sender, nBuilt, recipients,
                    messages, lookups >>
    /\ UNCHANGED << adapterVars, queryVars >>

\* basic.send_to_all returns: the frames of the call go, and with them the
\* last reference to the sender, whose __del__ quits its session
Return ==
    /\ pc = "send"
    /\ si > Len(messages)
    /\ pc' = "done"
    /\ calls' = del_client_users(calls)
    /\ sessions' = quit_sessions(calls, sessions)
    /\ UNCHANGED << mode, platform_name, recipients_data, content, directory,
                    error, cursor, nQueries, platform, sender, nBuilt, recipients,
                    messages, lookups, si, attempts, servers >>
    /\ UNCHANGED queryVars

\* After an exception left the call, its traceback keeps the frames and the
\* sender in them alive; its __del__ runs when the caller drops the
\* exception
DropException ==
    /\ pc = "failed"
    /\ \E i \in 1..Len(calls) : calls[i].alive
    /\ calls' = del_client_users(calls)
    /\ sessions' = quit_sessions(calls, sessions)
    /\ UNCHANGED << mode, platform_name, recipients_data, content, directory,
                    pc, error, cursor, nQueries, platform, sender, nBuilt, recipients,
                    messages, lookups, si, attempts, servers >>
    /\ UNCHANGED queryVars

Next ==
    \/ ImportContactDB
    \/ GetArgs
    \/ BuildPlatform
    \/ BuildSender
    \/ BuildRecipients
    \/ BuildMessages
    \/ SendMessage
    \/ Return
    \/ DropException

Spec == Init /\ [][Next]_vars

\* ------------------------------------------------------ get_unrecognized
\* the usernames a caller may ask about: those of the table and a stranger
QueryNames == Usernames \cup {"z"}

\* the state of send_to_all when no call of it is under way
NoCall ==
    /\ platform_name = "email"
    /\ recipients_data = <<>>
    /\ content = <<"H", "{0}">>
    /\ error = ""
    /\ cursor = "none"
    /\ nQueries = 0
    /\ platform = FALSE
    /\ sender = NoSender
    /\ nBuilt = 0
    /\ recipients = <<>>
    /\ messages = <<>>
    /\ lookups = <<>>
    /\ si = 1
    /\ attempts = <<>>

\* A caller that wants ContactDB.get_unrecognized(platform, usernames) has
\* to import mmmm.contact_db first: the call starts there
InitUnrecognized ==
    /\ NoCall
    /\ mode = "templated"
    /\ directory \in SUBSET Usernames
    /\ pc = "import"
    /\ AdapterIdle
    /\ usernames \in SeqsUpTo(QueryNames, MaxQuery)
    /\ unrecognized = <<>>

NextUnrecognized == ImportContactDB

SpecUnrecognized == InitUnrecognized /\ [][NextUnrecognized]_vars

\* ------------------------------------------------------ one Email adapter
\* Email(): an adapter with an empty cache
InitEmail ==
    /\ NoCall
    /\ mode = "plain"
    /\ directory = {}
    /\ pc = "adapter"
    /\ servers = {}
    /\ sessions = <<>>
    /\ calls = <<>>
    /\ QueryIdle

\* a call of Email.build_sender(data) on the adapter
EmailBuildSender ==
    /\ pc = "adapter"
    /\ Len(calls) < MaxCalls
    /\ \E data \in SenderData, connected \in BOOLEAN, established \in BOOLEAN :
          LET r == Email_build_sender(servers, sessions, data, connected, established)
          IN  /\ servers' = r.servers
              /\ sessions' = r.sessions
              /\ calls' = Append(calls, r.call)
    /\ UNCHANGED << mode, platform_name, recipients_data, content, directory,
                    pc, error, cursor, nQueries, platform, sender, nBuilt,
                    recipients, messages, lookups, si, attempts >>
    /\ UNCHANGED queryVars

\* EmailClientUser.__del__: a sender object that is no longer referenced
\* quits its session, which stays in the adapter's cache
DelClientUser ==
    /\ pc = "adapter"
    /\ \E i \in 1..Len(calls) :
          /\ calls[i].user
          /\ calls[i].alive
          /\ calls' = [calls EXCEPT ![i].alive = FALSE]
          /\ sessions' = [sessions EXCEPT ![calls[i].session].quit = TRUE]
    /\ UNCHANGED << mode, platform_name, recipients_data, content, directory,
                    pc, error, cursor, nQueries, platform, sender, nBuilt,
                    recipients, messages, lookups, si, attempts, servers >>
    /\ UNCHANGED queryVars

NextEmail ==
    \/ EmailBuildSender
    \/ DelClientUser

SpecEmail == InitEmail /\ [][NextEmail]_vars

\* ====================================================== properties
Exited == pc \in {"done", "failed"}

NothingConstructed ==
    /\ ~platform
    /\ sender = NoSender
    /\ nBuilt = 0
    /\ recipients = <<>>

NothingSent == attempts = <<>>

Positions(seq) == [i \in 1..Len(seq) |-> seq[i].pos]

\* the loop passes whose lookup gave no contact
Misses == { i \in 1..Len(lookups) : ~lookups[i].found }

\* the loop passes whose builder returned None
Absents == { i \in 1..Len(lookups) : lookups[i].found /\ lookups[i].absent }

\* the errors that are fatal to a call by design: those of the arguments,
\* of the database connection, of the registry, of the sender and the
\* recipients, and of the template input.  The SyntaxError of contact_db.py
\* is none of them.
FatalErrors ==
    { "SystemExit", "FileNotFoundError", "IsADirectoryError", "JSONDecodeError",
      "ValueError: No username specified for the contact database",
      "ValueError: No sender specified", "ConnectError",
      "SenderError", "TypeError", "IndexError", "KeyError" }

\* C1: in both modes a failed send is caught and the loop goes on: the call
\* never fails once a send was attempted, the attempts made so far are the
\* messages before the loop index, and the call is done only with one
\* attempt per built message, in the messages' order.
C1_SendFailureDoesNotStopTheBatch ==
    /\ pc = "failed" => NothingSent
    /\ pc \in {"send", "done"} => Positions(attempts) = SubSeq(Positions(messages), 1, si - 1)
    /\ pc = "done" => Len(attempts) = Len(messages)

\* C1 witness: a plain call is done, its first send failed and its second
\* send was attempted and delivered.
C1_Witness ==
    /\ mode = "plain"
    /\ pc = "done"
    /\ Len(messages) = 2
    /\ Len(attempts) = 2
    /\ ~attempts[1].ok
    /\ attempts[2].ok

\* C3: in templated mode, a call that ended with none of the fatal errors
\* built as many messages as it has recipients, less those whose lookup
\* failed, less those the builder returned None for, at most one message
\* per recipient position, and made as many send attempts.
C3_MessageCount ==
    (mode = "templated" /\ Exited /\ error \notin FatalErrors) =>
        /\ Len(messages) = Len(recipients_data) - Cardinality(Misses) - Cardinality(Absents)
        /\ \A i, j \in 1..Len(messages) : messages[i].pos = messages[j].pos => i = j
        /\ Len(attempts) = Len(messages)

\* C4: in plain mode there is exactly one message per recipient, for that
\* recipient, with the sender of the call and the content that was passed
\* to send_to_all, and that is what is handed to the transport.
C4_PlainOneMessagePerRecipient ==
    (mode = "plain" /\ pc \in {"send", "done"}) =>
        /\ Len(messages) = Len(recipients_data)
        /\ \A i \in 1..Len(messages) :
              /\ messages[i].recipient = recipients_data[i].id
              /\ messages[i].sender = sender
              /\ messages[i].content = content
        /\ \A i \in 1..Len(attempts) : attempts[i].content = content
        /\ pc = "done" => Len(attempts) = Len(recipients_data)

\* C4 witness: a finished plain call with two recipients.
C4_Witness ==
    /\ mode = "plain"
    /\ pc = "done"
    /\ Len(recipients_data) = 2
    /\ Len(attempts) = 2

\* the usernames the call took as its recipients
RecipientSet == { recipients_data[i].id : i \in 1..Len(recipients_data) }

BuiltFor == { messages[i].recipient : i \in 1..Len(messages) }

\* whether the call was given no recipients: it has none, or has queried
\* the usernames for them
NotGiven == nQueries >= 1 \/ recipients_data = <<>>

\* C5: in templated mode with no recipients given, the recipients of the
\* run are the result of exactly one query of the usernames, made during
\* resource construction: the usernames are never queried twice, and a call
\* that ended with none of the fatal errors has made the query, has as its
\* recipients the usernames of the table, and has built its messages for
\* recipients among them.
C5_LaterChangesDoNotChangeTheMessages ==
    (mode = "templated" /\ NotGiven) =>
        /\ nQueries <= 1
        /\ (Exited /\ error \notin FatalErrors) =>
              /\ pc = "done"
              /\ nQueries = 1
              /\ RecipientSet = directory
              /\ BuiltFor \subseteq RecipientSet

C9_SenderFailureBeforeAnyMessage ==
    /\ (pc = "failed" /\ error = "SenderError")
           => (messages = <<>> /\ lookups = <<>> /\ NothingSent)
    /\ (messages # <<>> \/ attempts # <<>>) => sender = SenderObj
    /\ (sender = NoSender /\ pc \notin {"import", "args", "platform", "sender"})
           => pc = "failed"

\* C9 witness: a call with recipients has failed building its sender.
C9_Witness ==
    /\ pc = "failed"
    /\ error = "SenderError"
    /\ platform
    /\ Len(recipients_data) = 2

\* C10: a recipient with no row in the directory and a failed send never
\* end the call: a call fails only by one of the fatal errors, and before
\* any send; a call that is done has looked up every recipient and
\* attempted every built message.
C10_PerRecipientFailuresContained ==
    /\ pc = "failed" =>
          /\ NothingSent
          /\ error \in FatalErrors
    /\ pc = "done" =>
          /\ error = ""
          /\ mode = "templated" => Positions(lookups) = [i \in 1..Len(recipients) |-> i]
          /\ Len(attempts) = Len(messages)

Increasing(seq) == \A i, j \in 1..Len(seq) : i < j => seq[i].pos < seq[j].pos

C14_UnrecognizedIsTheComplement ==
    pc \in {"returned", "failed"} =>
        /\ pc = "returned"
        /\ unrecognized = SelectSeq(usernames, LAMBDA u : u \notin directory)

\* C13: on one Email adapter, of two build_sender calls that both returned
\* a sender and gave the same SMTP endpoint, the later one reused the
\* session of the earlier one and opened none: one session per endpoint.
C13_OneSessionPerEndpoint ==
    \A i, j \in 1..Len(calls) :
        (i < j /\ calls[i].exc = "" /\ calls[j].exc = "" /\ calls[i].smtp = calls[j].smtp)
            => (calls[j].session = calls[i].session /\ ~calls[j].opened)

\* whether an address has a domain part, and that part: what follows its
\* first "@", up to the next one
HasDomain(address) == \E i \in 1..Len(address) : address[i] = "@"

DomainOf(address) ==
    LET at == CHOOSE i \in 1..Len(address) :
                  address[i] = "@" /\ \A k \in 1..(i - 1) : address[k] # "@"
        ends == { e \in at..Len(address) :
                    \A k \in (at + 1)..e : address[k] # "@" }
        end == CHOOSE e \in ends : \A f \in ends : f <= e
    IN  SubSeq(address, at + 1, end)

\* the earlier calls that got a session for the domain of call j
EarlierForDomain(j) ==
    { i \in 1..(j - 1) :
        /\ HasDomain(calls[i].address)
        /\ DomainOf(calls[i].address) = DomainOf(calls[j].address)
        /\ calls[i].session # 0 }

\* C16: the session cache of the Email adapter is keyed by the domain part
\* of the sender address alone.  A call for a domain that an earlier call
\* got a session for gets the session of the first such call and opens
\* none, whatever its SMTP endpoint data; a session is opened only by a
\* call for a domain with no session yet, with that call's endpoint data;
\* and the cache holds one session per domain.
C16_CacheKeyedByDomain ==
    /\ \A j \in 1..Len(calls) :
          IF ~HasDomain(calls[j].address)
          THEN calls[j].session = 0 /\ ~calls[j].opened
          ELSE LET earlier == EarlierForDomain(j)
               IN  /\ earlier # {} =>
                         /\ ~calls[j].opened
                         /\ \E i \in earlier :
                               /\ \A k \in earlier : i <= k
                               /\ calls[i].opened
                               /\ calls[j].session = calls[i].session
                   /\ calls[j].opened =>
                         /\ earlier = {}
                         /\ sessions[calls[j].session].smtp = calls[j].smtp
                   /\ (earlier = {} /\ calls[j].session # 0) => calls[j].opened
    /\ Len(sessions) = Cardinality({ j \in 1..Len(calls) : calls[j].opened })
    /\ servers = { [key |-> DomainOf(calls[j].address), session |-> calls[j].session] :
                     j \in { k \in 1..Len(calls) : calls[k].opened } }

\* C16 witness: the second call has the domain of the first and other
\* endpoint data, and got the first call's session, opened for the first
\* call's endpoint.
C16_Witness ==
    /\ Len(calls) = 2
    /\ calls[1].opened
    /\ calls[1].exc = ""
    /\ calls[2].exc = ""
    /\ calls[1].address # calls[2].address
    /\ DomainOf(calls[1].address) = DomainOf(calls[2].address)
    /\ calls[1].smtp # calls[2].smtp
    /\ calls[2].session = calls[1].session
    /\ ~calls[2].opened
    /\ Len(sessions) = 1
    /\ sessions[1].smtp = calls[1].smtp
====
